---- MODULE Spec2Model ----
(***************************************************************************)
(* A model of build_epub.py: the link index builder (parse_links_file),    *)
(* the fetch cache (save_cache / load_cache), the content extractor        *)
(* (fetch_chapter / fetch_chapter_fallback / clean_html / download_image)  *)
(* and the fetch orchestrator (main).                                      *)
(*                                                                         *)
(* Five specifications share the definitions:                              *)
(*   Spec        the orchestrator, main(), run after run over one cache    *)
(*   SpecPlan    the planning loop of main() as a function of its inputs   *)
(*   SpecCache   save_cache / load_cache over a cache directory            *)
(*   SpecLinks   parse_links_file over a sequence of regex matches         *)
(*   SpecExtract fetch_chapter on one response body                        *)
(***************************************************************************)
EXTENDS Integers, Sequences, FiniteSets, TLC

\* ------------------------------------------------------------------ bounds

\* chapter numbers are 1..MaxChapter
MaxChapter == 2
\* how many times the program is run over the same cache directory
MaxRuns == 2
\* length of the sequence of regex matches fed to parse_links_file
MaxMatches == 3
\* length of an image's byte string in the cache specification
MaxBytes == 3
\* cache writes that fail in one run
MaxSaveFailures == 1
\* numbers in the answer to the source-priority prompt
MaxChoices == 2
\* number of child elements of a content root in the extractor specification
MaxChildren == 2

\* --------------------------------------------------------- program constants

\* retries = 3
MaxRetries == 3
\* time.sleep(2) after a failed attempt
BackoffSeconds == 2
DEFAULT_DELAY_MIN == 1
DEFAULT_DELAY_MAX == 3

\* Python's None, wherever the value it stands next to is a string
None == "None"

Chapters == 1..MaxChapter

\* teletype handles; EditorOrder lists them in lexicographic order
EditorOrder == <<"@a", "@b", "@c">>
Editors == {EditorOrder[i] : i \in 1..Len(EditorOrder)}
\* the handles that occur in link files
IndexEditors == {"@a", "@b"}
Urls == {"url1", "url2", "url3"}

Range(s) == {s[i] : i \in 1..Len(s)}

\* all sequences over S of length at most n
SeqsUpTo(S, n) == UNION {[1..k -> S] : k \in 0..n}

\* ---------------------------------------------------------------- planning

\* A lookup that ignores the priority order: the URL of the first editor of
\* the chapter's map in handle order.
FindUrlAnyEditor(srcmap, editor_priority, i) ==
    IF \E k \in 1..Len(EditorOrder) : EditorOrder[k] \in DOMAIN srcmap
    THEN srcmap[EditorOrder[CHOOSE k \in 1..Len(EditorOrder) :
                      /\ EditorOrder[k] \in DOMAIN srcmap
                      /\ \A j \in 1..(k - 1) : EditorOrder[j] \notin DOMAIN srcmap]]
    ELSE None

\* main(), lines 591-595: the URL of the first editor of the priority list
\* that the chapter's map holds, None when there is none.
RECURSIVE FindUrl(_, _, _)
FindUrl(srcmap, editor_priority, i) ==
    IF i > Len(editor_priority) THEN None
    ELSE IF editor_priority[i] \in DOMAIN srcmap
         THEN srcmap[editor_priority[i]]
         ELSE FindUrl(srcmap, editor_priority, i + 1)

\* Python truthiness of `found_url`: neither None nor the empty string
UrlTruthy(found_url) == found_url # None /\ found_url # ""

\* main(), lines 585-600: the validation loop from chapter num on.
RECURSIVE PlanLoop(_, _, _, _, _, _)
PlanLoop(cmap, editor_priority, num, end_chapter, queue, missing) ==
    IF num > end_chapter THEN [queue |-> queue, missing |-> missing]
    ELSE IF num \notin DOMAIN cmap
         THEN PlanLoop(cmap, editor_priority, num + 1, end_chapter,
                       queue, Append(missing, num))
         ELSE LET found_url == FindUrl(cmap[num], editor_priority, 1) IN
              IF UrlTruthy(found_url)
              THEN PlanLoop(cmap, editor_priority, num + 1, end_chapter,
                            Append(queue, <<num, found_url>>), missing)
              ELSE PlanLoop(cmap, editor_priority, num + 1, end_chapter,
                            queue, Append(missing, num))

\* main(), lines 580-600
PlanChapters(cmap, cf) ==
    PlanLoop(cmap, cf.editor_priority, cf.start_chapter, cf.end_chapter,
             <<>>, <<>>)

\* ------------------------------------------------------------------ base64

B64Alphabet ==
    << "A","B","C","D","E","F","G","H","I","J","K","L","M","N","O","P",
       "Q","R","S","T","U","V","W","X","Y","Z","a","b","c","d","e","f",
       "g","h","i","j","k","l","m","n","o","p","q","r","s","t","u","v",
       "w","x","y","z","0","1","2","3","4","5","6","7","8","9","+","/" >>

B64Char(v) == B64Alphabet[v + 1]
B64Value(c) == (CHOOSE i \in 1..64 : B64Alphabet[i] = c) - 1

\* base64.b64encode(data).decode('ascii'): the characters, one string each
RECURSIVE B64Encode(_)
B64Encode(bytes) ==
    IF Len(bytes) = 0 THEN <<>>
    ELSE IF Len(bytes) = 1 THEN
        << B64Char(bytes[1] \div 4), B64Char((bytes[1] % 4) * 16), "=", "=" >>
    ELSE IF Len(bytes) = 2 THEN
        << B64Char(bytes[1] \div 4),
           B64Char((bytes[1] % 4) * 16 + bytes[2] \div 16),
           B64Char((bytes[2] % 16) * 4), "=" >>
    ELSE
        << B64Char(bytes[1] \div 4),
           B64Char((bytes[1] % 4) * 16 + bytes[2] \div 16),
           B64Char((bytes[2] % 16) * 4 + bytes[3] \div 64),
           B64Char(bytes[3] % 64) >>
        \o B64Encode(SubSeq(bytes, 4, Len(bytes)))

\* base64.b64decode on the output of b64encode
RECURSIVE B64Decode(_)
B64Decode(chars) ==
    IF Len(chars) < 4 THEN <<>>
    ELSE LET v1 == B64Value(chars[1])
             v2 == B64Value(chars[2])
             b1 == v1 * 4 + v2 \div 16
         IN  IF chars[3] = "=" THEN << b1 >>
             ELSE LET v3 == B64Value(chars[3])
                      b2 == (v2 % 16) * 16 + v3 \div 4
                  IN  IF chars[4] = "=" THEN << b1, b2 >>
                      ELSE LET v4 == B64Value(chars[4])
                               b3 == (v3 % 4) * 64 + v4
                           IN  << b1, b2, b3 >>
                               \o B64Decode(SubSeq(chars, 5, Len(chars)))

\* ------------------------------------------------------------- fetch cache

\* A file of the cache directory, as load_cache sees it: absent, present but
\* not a readable record (truncated by an interrupted write), or the JSON
\* object save_cache wrote.
AbsentFile == [kind |-> "absent"]
CorruptFile == [kind |-> "corrupt"]

\* A serialization that looks the images up under a key chapter_data does
\* not have, and so writes none.
ToSaveNoImages(chapter_data) ==
    [ chapter_num |-> chapter_data.chapter_num,
      title |-> chapter_data.title,
      html |-> chapter_data.html,
      images |-> <<>>,
      has_images |-> Len(chapter_data.images) > 0 ]

\* save_cache, lines 351-360: the object that is serialized
ToSave(chapter_data) ==
    [ chapter_num |-> chapter_data.chapter_num,
      title |-> chapter_data.title,
      html |-> chapter_data.html,
      images |-> [ i \in 1..Len(chapter_data.images) |->
                     [ filename |-> chapter_data.images[i][1],
                       data_b64 |-> B64Encode(chapter_data.images[i][2]) ] ],
      has_images |-> Len(chapter_data.images) > 0 ]

\* save_cache, lines 346-363, when no call raises: the directory afterwards
SaveCache(dir, chapter_data) ==
    [dir EXCEPT ![chapter_data.chapter_num] =
        [kind |-> "json", obj |-> ToSave(chapter_data)]]

\* load_cache, lines 365-380: None, or the record with its images decoded
LoadCache(dir, chapter_num) ==
    IF dir[chapter_num].kind = "absent" THEN [found |-> FALSE]
    ELSE IF dir[chapter_num].kind = "corrupt" THEN [found |-> FALSE]
    ELSE LET data == dir[chapter_num].obj IN
         [ found |-> TRUE,
           data |-> [data EXCEPT !.images =
                       [ i \in 1..Len(data.images) |->
                           << data.images[i].filename,
                              B64Decode(data.images[i].data_b64) >> ]] ]

\* ------------------------------------------------------- content extractor

\* Inner markup of a block element (child.decode_contents()) as a sequence of
\* pieces:
\*   "text"     a run of characters that are not whitespace
\*   "sp"       one whitespace character
\*   "spsp"     a run of two or more whitespace characters
\*   "anchor"   an empty named anchor, <a name="x"></a>
\*   "comment"  <!-- ... -->
\*   "elemdata" an inline tag carrying a data-* attribute, <b data-x="1">
\*   "elem"     an inline tag without one, <b>
MarkupPieces == {"text", "sp", "spsp", "anchor", "comment", "elemdata", "elem"}

IsSpace(piece) == piece \in {"sp", "spsp"}

\* re.sub(r"\s{2,}", " ", html): a run of whitespace pieces (adjacent once
\* anchors and comments are gone) of two characters or more becomes one space
RECURSIVE CollapseSpaces(_)
CollapseSpaces(pieces) ==
    IF Len(pieces) = 0 THEN <<>>
    ELSE IF IsSpace(pieces[1])
         THEN IF Len(pieces) >= 2 /\ IsSpace(pieces[2])
              THEN CollapseSpaces(<<"spsp">> \o SubSeq(pieces, 3, Len(pieces)))
              ELSE <<"sp">> \o CollapseSpaces(Tail(pieces))
         ELSE <<pieces[1]>> \o CollapseSpaces(Tail(pieces))

\* str.strip(): leading and trailing whitespace removed
RECURSIVE StripLeft(_)
StripLeft(pieces) ==
    IF Len(pieces) > 0 /\ IsSpace(pieces[1]) THEN StripLeft(Tail(pieces))
    ELSE pieces

RECURSIVE StripRight(_)
StripRight(pieces) ==
    IF Len(pieces) > 0 /\ IsSpace(pieces[Len(pieces)])
    THEN StripRight(SubSeq(pieces, 1, Len(pieces) - 1))
    ELSE pieces

Strip(pieces) == StripRight(StripLeft(pieces))

\* clean_html, lines 322-328
CleanHtml(html) ==
    LET no_anchor == SelectSeq(html, LAMBDA p : p # "anchor")
        no_comment == SelectSeq(no_anchor, LAMBDA p : p # "comment")
        no_data == [i \in 1..Len(no_comment) |->
                      IF no_comment[i] = "elemdata" THEN "elem"
                      ELSE no_comment[i]]
    IN  Strip(CollapseSpaces(no_data))

\* An image source URL: <<"src", id, marker>> where marker is the "jpg" or
\* "jpeg" the URL contains ("" when it contains neither); <<>> stands for a
\* missing or empty attribute.
NoSrc == <<>>
ImgSrcs == { <<"src", 1, "jpg">>, <<"src", 2, "">> }

\* f"img_{md5(src)}.{ext}", lines 226-228 and 297-299
ImgFilename(img_src) ==
    << "img_", <<"md5", img_src>>, ".",
       IF img_src[3] \in {"jpeg", "jpg"} THEN "jpg" ELSE "png" >>

\* What download_image gives back: the response body, or None after any
\* exception (lines 331-338).
DownloadFailed == [ok |-> FALSE, content |-> <<>>]
DownloadOk(bytes) == [ok |-> TRUE, content |-> bytes]
\* Python truthiness of `img_data`: not None and not b""
ImgDataTruthy(img_data) == img_data.ok /\ Len(img_data.content) > 0

WhitelistTags ==
    {"p", "h1", "h2", "h3", "h4", "h5", "h6", "blockquote", "ul", "ol", "div"}

\* A child node of a content root. tag is None for a text node.
\*   inner      the element's inner markup
\*   align      its align attribute, data_align its data-align attribute
\*   src        the src attribute of an <image>, or of the <img> of a <figure>
\*   ns_src     the src of the <img> inside the figure's <noscript>
\*   data_src   the data-src attribute of the <img> of a <figure>
El(tag, inner, align, data_align, src, ns_src, data_src) ==
    [ tag |-> tag, inner |-> inner, align |-> align, data_align |-> data_align,
      src |-> src, ns_src |-> ns_src, data_src |-> data_src ]

\* An emitted block: <tag style>inner</tag>, or the centred paragraph that
\* holds an <img> (img is its file name, <<>> otherwise).
TextBlock(tag, centered, inner) ==
    [tag |-> tag, centered |-> centered, inner |-> inner, img |-> <<>>]
ImgBlock(img_filename) ==
    [tag |-> "p", centered |-> TRUE, inner |-> <<>>, img |-> img_filename]

\* "<p>(Пусто)</p>", line 187
EmptyPlaceholder == TextBlock("p", FALSE, <<"(empty)">>)
\* "<p>Не удалось найти контент (ни JSON, ни HTML)</p>", line 266
NotFoundPlaceholder == TextBlock("p", FALSE, <<"(content not found)">>)

NoParts == [parts |-> <<>>, images |-> <<>>]

\* An image step that emits the centred paragraph even when the download
\* failed.
EmitImagePlaceholder(img_src, img_data) ==
    IF img_src # NoSrc
    THEN [ parts |-> << ImgBlock(ImgFilename(img_src)) >>,
           images |-> IF ImgDataTruthy(img_data)
                      THEN << <<ImgFilename(img_src), img_data.content>> >>
                      ELSE <<>> ]
    ELSE NoParts

\* lines 223-234 and 294-305: download, name and emit one image
EmitImage(img_src, img_data) ==
    IF img_src # NoSrc /\ ImgDataTruthy(img_data)
    THEN [ parts |-> << ImgBlock(ImgFilename(img_src)) >>,
           images |-> << <<ImgFilename(img_src), img_data.content>> >> ]
    ELSE NoParts

\* lines 238-246 and 308-315: one whitelisted block element
EmitBlock(child, align) ==
    LET inner == CleanHtml(child.inner) IN
    IF Len(inner) > 0
    THEN [ parts |-> << TextBlock(child.tag, align = "center", inner) >>,
           images |-> <<>> ]
    ELSE NoParts

\* fetch_chapter, lines 210-246: the body of the loop for one child
StateChild(child, include_images, img_data) ==
    IF child.tag = None THEN NoParts
    ELSE IF child.tag = "image"
         THEN IF ~include_images THEN NoParts
              ELSE EmitImage(child.src, img_data)
         ELSE IF child.tag \in WhitelistTags
              THEN EmitBlock(child, child.align)
              ELSE NoParts

\* fetch_chapter_fallback, lines 281-292: the image URL of a <figure>
FigureSrc(child) ==
    IF child.ns_src # NoSrc THEN child.ns_src
    ELSE IF child.src # NoSrc THEN child.src
    ELSE child.data_src

\* fetch_chapter_fallback, lines 271-315: the body of the loop for one child
DomChild(child, include_images, img_data) ==
    IF child.tag = None THEN NoParts
    ELSE IF child.tag = "figure"
         THEN IF ~include_images THEN NoParts
              ELSE EmitImage(FigureSrc(child), img_data)
         ELSE IF child.tag \in WhitelistTags
              THEN EmitBlock(child, child.data_align)
              ELSE NoParts

\* the loops over root.children (lines 210-246) and article.children
\* (lines 271-315); dl[i] is what download_image returns for child i
RECURSIVE StateChildren(_, _, _, _)
StateChildren(children, include_images, dl, i) ==
    IF i > Len(children) THEN NoParts
    ELSE LET one == StateChild(children[i], include_images, dl[i])
             rest == StateChildren(children, include_images, dl, i + 1)
         IN  [parts |-> one.parts \o rest.parts,
              images |-> one.images \o rest.images]

RECURSIVE DomChildren(_, _, _, _)
DomChildren(children, include_images, dl, i) ==
    IF i > Len(children) THEN NoParts
    ELSE LET one == DomChild(children[i], include_images, dl[i])
             rest == DomChildren(children, include_images, dl, i + 1)
         IN  [parts |-> one.parts \o rest.parts,
              images |-> one.images \o rest.images]

\* What a call of fetch_chapter ends with: an exception, or the dict
Raised == [raised |-> TRUE]
Returned(title, html, images) ==
    [raised |-> FALSE, title |-> title, html |-> html, images |-> images]

\* A response body, by what the code reads of it:
\*   marker      "window.__INITIAL_STATE__=" occurs
\*   end_semi    ";window." occurs after it; end_script: "</script>" does
\*   state       json.loads of the slice, by kind: "invalid" (JSONDecodeError),
\*               "nondict" (a value without .get), or "dict" with items, the
\*               article records of data["articles"]["items"], in order
\*   dom_title   text of h1.article__header_title ("" when there is none)
\*   container   "article" (article.article__content), "div"
\*               (div.article__content) or "none"
\*   children    the container's child nodes
\* An article record is [title, text]. text is the string of the record's
\* "text" key by what the code reads of it: empty (the string is "" or the
\* key is missing) and nodes, the child nodes of the root of the parsed
\* markup; a non-empty string can have no child nodes ("<document/>", " ").
\* EmptyText and MarkupText below build one.

\* A fallback that finds only the <article> container, not the <div> one.
FetchChapterFallbackArticleOnly(body, include_images, dl) ==
    IF body.container # "article"
    THEN Returned(body.dom_title, << NotFoundPlaceholder >>, <<>>)
    ELSE LET r == DomChildren(body.children, include_images, dl, 1)
         IN  Returned(body.dom_title, r.parts, r.images)

\* fetch_chapter_fallback, lines 252-318
FetchChapterFallback(body, include_images, dl) ==
    IF body.container = "none"
    THEN Returned(body.dom_title, << NotFoundPlaceholder >>, <<>>)
    ELSE LET r == DomChildren(body.children, include_images, dl, 1)
         IN  Returned(body.dom_title, r.parts, r.images)

\* fetch_chapter, lines 146-178: which way the extraction goes
Strategy(body) ==
    IF ~body.marker THEN "fallback"
    ELSE IF ~body.end_semi /\ ~body.end_script THEN "fallback"
    ELSE IF body.state.kind = "invalid" THEN "fallback"
    ELSE IF body.state.kind = "nondict" THEN "raise"
    ELSE IF Len(body.state.items) = 0 THEN "fallback"
    ELSE "state"

\* the "text" string of an article record: "" or markup with child nodes
EmptyText == [empty |-> TRUE, nodes |-> <<>>]
MarkupText(nodes) == [empty |-> FALSE, nodes |-> nodes]

\* fetch_chapter, lines 181-249: the first article of the state payload
FetchChapterState(body, include_images, dl) ==
    LET article_item == body.state.items[1]
        raw_html_content == article_item.text
    IN  IF raw_html_content.empty
        THEN Returned(article_item.title, << EmptyPlaceholder >>, <<>>)
        ELSE LET r == StateChildren(raw_html_content.nodes, include_images,
                                    dl, 1)
             IN  Returned(article_item.title, r.parts, r.images)

\* fetch_chapter, lines 133-249, on a response body
FetchChapter(body, include_images, dl) ==
    CASE Strategy(body) = "raise" -> Raised
      [] Strategy(body) = "fallback" ->
            FetchChapterFallback(body, include_images, dl)
      [] OTHER -> FetchChapterState(body, include_images, dl)

\* ------------------------------------------------------ link index builder

\* A loop that keeps the first URL of a (chapter, editor) pair.
AddLinkFirstWins(index, m) ==
    LET old == IF m.num \in DOMAIN index THEN index[m.num] ELSE <<>> IN
    [ n \in DOMAIN index \cup {m.num} |->
        IF n = m.num
        THEN [ e \in DOMAIN old \cup {m.editor} |->
                 IF e \in DOMAIN old THEN old[e] ELSE m.url ]
        ELSE index[n] ]

\* parse_links_file, lines 118-125: one regex match (num, editor, url)
\* recorded in the index
AddLink(index, m) ==
    LET old == IF m.num \in DOMAIN index THEN index[m.num] ELSE <<>> IN
    [ n \in DOMAIN index \cup {m.num} |->
        IF n = m.num
        THEN [ e \in DOMAIN old \cup {m.editor} |->
                 IF e = m.editor THEN m.url ELSE old[e] ]
        ELSE index[n] ]

\* sorted(list(editors_set)), line 128
SortedEditors(S) == SelectSeq(EditorOrder, LAMBDA e : e \in S)

\* ------------------------------------------------------------------ state

VARIABLES
    \* setup_config's results: the link index and the Config
    chapters_map, conf,
    \* where main() stands, and which run over the cache directory this is
    pc, run,
    \* main()'s locals
    missing_chapters, chapters_queue, result_data, uncached_queue,
    scan_pos, idx, retries, sleep_for,
    \* the cache directory: chapter number -> file
    cache_dir,
    \* what build_epub_file was called with
    book,
    \* this run's record: calls of fetch_chapter per chapter, calls of
    \* load_cache and save_cache, politeness sleeps, failed cache writes,
    \* the last attempt, the chapters whose entry succeeded, the cache
    \* directory as the run found it, and how the run before ended
    calls, reads, writes, delays, save_failures, last, fetched_ok,
    dir_at_start, prev,
    \* parse_links_file: the matches of the text, the position of the loop,
    \* the dictionaries, and the returned pair
    matches, mpos, chapters, editors_set, parsed,
    \* the cache specification: the last chapter_data passed to save_cache for
    \* each chapter number, and the last value load_cache returned
    stored, loaded,
    \* the extractor specification: the response, the images-wanted flag, the
    \* position in fetch_chapter and its outcome
    body, want_images, xpc, extracted,
    \* the planning specification: the index and the Config handed to the
    \* validation loop, its position, and the lists it built
    plan_index, plan_conf, plan_pc, plan_out

orchVars == << chapters_map, conf, pc, run, missing_chapters, chapters_queue,
               result_data, uncached_queue, scan_pos, idx, retries, sleep_for,
               cache_dir, book, calls, reads, writes, delays, save_failures,
               last, fetched_ok, dir_at_start, prev >>
linkVars == << matches, mpos, chapters, editors_set, parsed >>
cacheVars == << stored, loaded >>
extractVars == << body, want_images, xpc, extracted >>
planVars == << plan_index, plan_conf, plan_pc, plan_out >>
vars == << orchVars, linkVars, cacheVars, extractVars, planVars >>

\* the parts of the state a specification does not use stay as they are here
IdleLinks ==
    /\ matches = <<>> /\ mpos = 0 /\ chapters = <<>>
    /\ editors_set = {} /\ parsed = <<>>
IdleCache == stored = <<>> /\ loaded = <<>>
IdleExtract ==
    /\ body = <<>> /\ want_images = FALSE /\ xpc = "idle" /\ extracted = <<>>

\* ------------------------------------------------------------ orchestrator

\* result_data.sort(key=lambda x: x["chapter_num"]), line 680: stable
RECURSIVE InsertByChapter(_, _)
InsertByChapter(sorted, x) ==
    IF Len(sorted) = 0 THEN << x >>
    ELSE IF sorted[Len(sorted)].chapter_num <= x.chapter_num
         THEN Append(sorted, x)
         ELSE Append(InsertByChapter(SubSeq(sorted, 1, Len(sorted) - 1), x),
                     sorted[Len(sorted)])

RECURSIVE SortedByChapter(_)
SortedByChapter(s) ==
    IF Len(s) = 0 THEN <<>>
    ELSE InsertByChapter(SortedByChapter(SubSeq(s, 1, Len(s) - 1)), s[Len(s)])

\* A main() that hands result_data over as accumulated.
SortResultUnsorted(data) == data

\* line 680
SortResult(data) == SortedByChapter(data)

\* data["chapter_num"] = num, line 653
WithChapterNum(data, num) ==
    [ chapter_num |-> num, title |-> data.title, html |-> data.html,
      images |-> data.images ]

\* The response bodies the orchestrator's runs meet: a page with a state
\* payload whose article holds a paragraph and an image, and a page with
\* neither a payload nor a content container.
Paragraph == El("p", <<"text">>, "", "", NoSrc, NoSrc, NoSrc)
StateImage == El("image", <<>>, "", "", <<"src", 1, "jpg">>, NoSrc, NoSrc)

GoodBody ==
    [ marker |-> TRUE, end_semi |-> TRUE, end_script |-> TRUE,
      state |-> [kind |-> "dict",
                 items |-> << [title |-> "T",
                               text |-> MarkupText(<< StateImage,
                                                      Paragraph >>)] >>],
      dom_title |-> "", container |-> "none", children |-> <<>> ]

BareBody ==
    [ marker |-> FALSE, end_semi |-> FALSE, end_script |-> FALSE,
      state |-> [kind |-> "invalid"],
      dom_title |-> "", container |-> "none", children |-> <<>> ]

\* a page without state payload whose <article> container holds a figure
\* and a paragraph
DomFigure == El("figure", <<>>, "", "", NoSrc, <<"src", 2, "">>, NoSrc)
DomBody ==
    [ marker |-> FALSE, end_semi |-> FALSE, end_script |-> FALSE,
      state |-> [kind |-> "invalid"],
      dom_title |-> "T", container |-> "article",
      children |-> << DomFigure, Paragraph >> ]

OrchBodies == {GoodBody, BareBody, DomBody}

PngBytes == <<137, 80>>
\* what download_image returns for each child of a body of OrchBodies
OrchDownloads ==
    { [i \in 1..2 |-> r] : r \in {DownloadFailed, DownloadOk(PngBytes)} }

\* neither a usable state payload nor a locatable content container
MissingStructure(b) == Strategy(b) = "fallback" /\ b.container = "none"

\* the records an earlier run can have left in the cache for chapter n
SeedFiles(n) ==
    {AbsentFile} \cup
    { [kind |-> "json",
       obj |-> ToSave(WithChapterNum(FetchChapter(GoodBody, TRUE, dl), n))] :
      dl \in OrchDownloads }

\* the non-empty maps from editors of E to URLs of U
SourceMaps(E, U) ==
    { f \in UNION {[S -> U] : S \in SUBSET E} : DOMAIN f # {} }

\* link indexes over Chapters: a chapter is absent or has a source map
Indexes(E, U) == UNION { [D -> SourceMaps(E, U)] : D \in SUBSET Chapters }

Config(s, e, prio, img) ==
    [ start_chapter |-> s, end_chapter |-> e, editor_priority |-> prio,
      include_images |-> img ]

NoAttempt ==
    [num |-> 0, kind |-> "none", bare |-> FALSE,
     via |-> "none", nodes |-> <<>>, dl |-> <<>>]

\* main()'s locals and the run's record before the run has done anything
FreshLocals ==
    /\ missing_chapters = <<>> /\ chapters_queue = <<>>
    /\ result_data = <<>> /\ uncached_queue = <<>>
    /\ scan_pos = 0 /\ idx = 0 /\ retries = 0 /\ sleep_for = 0
    /\ book = [built |-> FALSE, chapters |-> <<>>]
    /\ calls = [n \in Chapters |-> 0]
    /\ reads = 0 /\ writes = 0 /\ delays = 0 /\ save_failures = 0
    /\ last = NoAttempt
    /\ fetched_ok = {}

\* the state of a run that has not started its work
FreshRun == pc = "validate" /\ FreshLocals

\* the orchestrator where a specification does not run it
IdlePlan ==
    /\ plan_index = <<>>
    /\ plan_conf = Config(1, 1, <<>>, FALSE)
    /\ plan_pc = "idle"
    /\ plan_out = [queue |-> <<>>, missing |-> <<>>]

IdleOrch ==
    /\ chapters_map = <<>>
    /\ conf = Config(1, 1, <<>>, FALSE)
    /\ pc = "idle" /\ run = 0
    /\ FreshLocals
    /\ dir_at_start = [n \in Chapters |-> AbsentFile]
    /\ prev = [aborted |-> FALSE, ok |-> {}]

\* all_editors, lines 128 and 496: the handles of the index, sorted
AllEditors(index) ==
    SortedEditors(UNION { DOMAIN index[n] : n \in DOMAIN index })

\* setup_config, lines 517-524: the editors the answer's numbers name, in
\* the answer's order, without numbers out of range and without repeats
RECURSIVE SelectEditors(_, _, _)
SelectEditors(all_editors, choices, selected_editors) ==
    IF choices = <<>> THEN selected_editors
    ELSE LET c == Head(choices)
             picked == IF /\ 1 <= c /\ c <= Len(all_editors)
                          /\ all_editors[c] \notin Range(selected_editors)
                       THEN Append(selected_editors, all_editors[c])
                       ELSE selected_editors
         IN  SelectEditors(all_editors, Tail(choices), picked)

\* setup_config, lines 517-531: conf.editor_priority is the selected
\* editors followed by every other editor of the index
EditorPriority(all_editors, choices) ==
    LET selected_editors == SelectEditors(all_editors, choices, <<>>) IN
    selected_editors \o
    SelectSeq(all_editors, LAMBDA ed : ed \notin Range(selected_editors))

\* answers to the priority prompt: up to MaxChoices numbers, 0 and one past
\* the last editor included
Choices(all_editors) == SeqsUpTo(0..(Len(all_editors) + 1), MaxChoices)

\* the link files of the orchestrator's runs: each chapter is absent from
\* the index, linked by one editor, or linked by both
OrchIndexes ==
    { m \in Indexes(IndexEditors, Urls) :
        /\ DOMAIN m # {}
        /\ \A n \in DOMAIN m :
             \/ m[n] = [e \in {"@a"} |-> "url1"]
             \/ m[n] = [e \in {"@b"} |-> "url2"]
             \/ m[n] = [e \in {"@a", "@b"} |->
                          IF e = "@a" THEN "url1" ELSE "url2"] }

Init ==
    /\ chapters_map \in OrchIndexes
    /\ \E s \in Chapters, e \in Chapters, img \in BOOLEAN,
          choices \in Choices(AllEditors(chapters_map)) :
          /\ s <= e
          /\ conf = Config(s, e, EditorPriority(AllEditors(chapters_map),
                                                choices), img)
    /\ run = 1
    /\ FreshRun
    /\ cache_dir \in [Chapters -> UNION {SeedFiles(n) : n \in Chapters}]
    /\ \A n \in Chapters : cache_dir[n] \in SeedFiles(n)
    /\ dir_at_start = cache_dir
    /\ prev = [aborted |-> FALSE, ok |-> {}]
    /\ IdleLinks /\ IdleCache /\ IdleExtract /\ IdlePlan

\* lines 580-600: the validation loop
Validate ==
    /\ pc = "validate"
    /\ LET plan == PlanChapters(chapters_map, conf) IN
       /\ missing_chapters' = plan.missing
       /\ chapters_queue' = plan.queue
    /\ pc' = "validated"
    /\ UNCHANGED << chapters_map, conf, run, result_data, uncached_queue,
                    scan_pos, idx, retries, sleep_for, cache_dir, book, calls,
                    reads, writes, delays, save_failures, last, fetched_ok,
                    dir_at_start, prev >>
    /\ UNCHANGED << planVars, linkVars, cacheVars, extractVars >>

\* lines 602-605: sys.exit(1) on a planning gap
ExitOnMissing ==
    /\ pc = "validated"
    /\ Len(missing_chapters) > 0
    /\ pc' = "exit"
    /\ UNCHANGED << chapters_map, conf, run, missing_chapters, chapters_queue,
                    result_data, uncached_queue, scan_pos, idx, retries,
                    sleep_for, cache_dir, book, calls, reads, writes, delays,
                    save_failures, last, fetched_ok, dir_at_start, prev >>
    /\ UNCHANGED << planVars, linkVars, cacheVars, extractVars >>

\* A main() without the sys.exit(1) of line 605: the run goes on with the
\* chapters it could resolve.
StartRunDespiteMissing ==
    /\ pc = "validated"
    /\ result_data' = <<>>
    /\ uncached_queue' = <<>>
    /\ scan_pos' = 1
    /\ pc' = "cache_scan"
    /\ UNCHANGED << chapters_map, conf, run, missing_chapters, chapters_queue,
                    idx, retries, sleep_for, cache_dir, book, calls, reads,
                    writes, delays, save_failures, last, fetched_ok,
                    dir_at_start, prev >>
    /\ UNCHANGED << planVars, linkVars, cacheVars, extractVars >>

\* lines 607-620: the directories are made, the lists start empty
StartRun ==
    /\ pc = "validated"
    /\ Len(missing_chapters) = 0
    /\ result_data' = <<>>
    /\ uncached_queue' = <<>>
    /\ scan_pos' = 1
    /\ pc' = "cache_scan"
    /\ UNCHANGED << chapters_map, conf, run, missing_chapters, chapters_queue,
                    idx, retries, sleep_for, cache_dir, book, calls, reads,
                    writes, delays, save_failures, last, fetched_ok,
                    dir_at_start, prev >>
    /\ UNCHANGED << planVars, linkVars, cacheVars, extractVars >>

\* A cache check with the abandoned re-download rule switched on: a cached
\* record without images counts as a miss when images are wanted.
CacheHitReparse(cached, include_images) ==
    /\ cached.found
    /\ ~(include_images /\ ~cached.data.has_images
         /\ Len(cached.data.images) = 0)

\* lines 622-632: `if cached:`; need_reparse is never used
CacheHit(cached, include_images) == cached.found

\* lines 621-642: one entry of chapters_queue checked against the cache;
\* after the last one the download starts, or the sort when nothing is left
CacheLookup ==
    /\ pc = "cache_scan"
    /\ scan_pos <= Len(chapters_queue)
    /\ LET num == chapters_queue[scan_pos][1]
           cached == LoadCache(cache_dir, num)
           hit == CacheHit(cached, conf.include_images)
           uncached == IF hit THEN uncached_queue
                       ELSE Append(uncached_queue, chapters_queue[scan_pos])
       IN  /\ reads' = reads + 1
           /\ result_data' = IF hit THEN Append(result_data, cached.data)
                             ELSE result_data
           /\ uncached_queue' = uncached
           /\ scan_pos' = scan_pos + 1
           /\ IF scan_pos < Len(chapters_queue)
              THEN pc' = "cache_scan" /\ UNCHANGED << idx, retries >>
              ELSE IF Len(uncached) > 0
                   THEN pc' = "attempt" /\ idx' = 1 /\ retries' = MaxRetries
                   ELSE pc' = "sort" /\ UNCHANGED << idx, retries >>
    /\ UNCHANGED << chapters_map, conf, run, missing_chapters, chapters_queue,
                    sleep_for, cache_dir, book, calls, writes, delays,
                    save_failures, last, fetched_ok, dir_at_start, prev >>
    /\ UNCHANGED << planVars, linkVars, cacheVars, extractVars >>

\* the child nodes the extraction of body b loops over: root.children at
\* line 210, article.children at line 271; none when it returns before
LoopedNodes(b) ==
    IF Strategy(b) = "state"
    THEN IF b.state.items[1].text.empty THEN <<>>
         ELSE b.state.items[1].text.nodes
    ELSE IF Strategy(b) = "fallback" /\ b.container # "none"
         THEN b.children
         ELSE <<>>

\* what one call of fetch_chapter can end with: an exception of the request,
\* or the extraction of the body that came back
FetchOutcomes(include_images) ==
    { [res |-> Raised, bare |-> FALSE,
       via |-> "none", nodes |-> <<>>, dl |-> <<>>] } \cup
    { [res |-> FetchChapter(b, include_images, dl),
       bare |-> MissingStructure(b),
       via |-> Strategy(b), nodes |-> LoopedNodes(b), dl |-> dl] :
      b \in OrchBodies, dl \in OrchDownloads }

\* lines 662-668: the except branch of one attempt. After the last attempt
\* the loop ends without success, the raise of line 668 is caught at line
\* 674 and the process exits.
AttemptFailed ==
    /\ retries' = retries - 1
    /\ sleep_for' = BackoffSeconds
    /\ pc' = IF retries - 1 > 0 THEN "attempt" ELSE "aborted"

\* lines 650-665: an attempt in which fetch_chapter raises
AttemptRaises ==
    /\ pc = "attempt"
    /\ retries > 0
    /\ LET num == uncached_queue[idx][1] IN
       \E o \in FetchOutcomes(conf.include_images) :
          /\ o.res.raised
          /\ calls' = [calls EXCEPT ![num] = @ + 1]
          /\ last' = [num |-> num, kind |-> "raised", bare |-> o.bare,
                      via |-> o.via, nodes |-> o.nodes, dl |-> o.dl]
    /\ AttemptFailed
    /\ UNCHANGED << chapters_map, conf, run, missing_chapters, chapters_queue,
                    result_data, uncached_queue, scan_pos, idx, cache_dir,
                    book, reads, writes, delays, save_failures, fetched_ok,
                    dir_at_start, prev >>
    /\ UNCHANGED << planVars, linkVars, cacheVars, extractVars >>

\* An attempt that succeeds without writing the cache record.
AttemptSavedNoCache ==
    /\ pc = "attempt"
    /\ retries > 0
    /\ LET num == uncached_queue[idx][1] IN
       \E o \in FetchOutcomes(conf.include_images) :
          /\ ~o.res.raised
          /\ result_data' = Append(result_data, WithChapterNum(o.res, num))
          /\ calls' = [calls EXCEPT ![num] = @ + 1]
          /\ last' = [num |-> num, kind |-> "saved", bare |-> o.bare,
                      via |-> o.via, nodes |-> o.nodes, dl |-> o.dl]
          /\ fetched_ok' = fetched_ok \cup {num}
    /\ sleep_for' = 0
    /\ pc' = "fetched"
    /\ UNCHANGED << chapters_map, conf, run, missing_chapters, chapters_queue,
                    uncached_queue, scan_pos, idx, retries, book, reads,
                    delays, save_failures, dir_at_start, prev, cache_dir,
                    writes >>
    /\ UNCHANGED << planVars, linkVars, cacheVars, extractVars >>

\* lines 650-661: an attempt in which fetch_chapter returns and save_cache
\* writes the record
AttemptSaved ==
    /\ pc = "attempt"
    /\ retries > 0
    /\ LET num == uncached_queue[idx][1] IN
       \E o \in FetchOutcomes(conf.include_images) :
          /\ ~o.res.raised
          /\ LET data == WithChapterNum(o.res, num) IN
             /\ result_data' = Append(result_data, data)
             /\ cache_dir' = SaveCache(cache_dir, data)
          /\ calls' = [calls EXCEPT ![num] = @ + 1]
          /\ last' = [num |-> num, kind |-> "saved", bare |-> o.bare,
                      via |-> o.via, nodes |-> o.nodes, dl |-> o.dl]
          /\ fetched_ok' = fetched_ok \cup {num}
    /\ writes' = writes + 1
    /\ sleep_for' = 0
    /\ pc' = "fetched"
    /\ UNCHANGED << chapters_map, conf, run, missing_chapters, chapters_queue,
                    uncached_queue, scan_pos, idx, retries, book, reads,
                    delays, save_failures, dir_at_start, prev >>
    /\ UNCHANGED << planVars, linkVars, cacheVars, extractVars >>

\* lines 650-665: an attempt in which fetch_chapter returns, its data is
\* appended to result_data, and save_cache raises: at open(), line 362,
\* which leaves the file as it was, or in json.dump, line 363 (the disk is
\* full, the text cannot be encoded), which leaves a truncated file
AttemptSaveFails ==
    /\ pc = "attempt"
    /\ retries > 0
    /\ save_failures < MaxSaveFailures
    /\ LET num == uncached_queue[idx][1] IN
       \E o \in FetchOutcomes(conf.include_images) :
          /\ ~o.res.raised
          /\ result_data' = Append(result_data, WithChapterNum(o.res, num))
          /\ \/ cache_dir' = cache_dir
             \/ cache_dir' = [cache_dir EXCEPT ![num] = CorruptFile]
          /\ calls' = [calls EXCEPT ![num] = @ + 1]
          /\ last' = [num |-> num, kind |-> "save_failed", bare |-> o.bare,
                      via |-> o.via, nodes |-> o.nodes, dl |-> o.dl]
    /\ writes' = writes + 1
    /\ save_failures' = save_failures + 1
    /\ AttemptFailed
    /\ UNCHANGED << chapters_map, conf, run, missing_chapters, chapters_queue,
                    uncached_queue, scan_pos, idx, book, reads, delays,
                    fetched_ok, dir_at_start, prev >>
    /\ UNCHANGED << planVars, linkVars, cacheVars, extractVars >>

\* lines 670-672: the politeness sleep before the next entry
PolitenessDelay ==
    /\ pc = "fetched"
    /\ idx < Len(uncached_queue)
    /\ \E d \in DEFAULT_DELAY_MIN..DEFAULT_DELAY_MAX : sleep_for' = d
    /\ delays' = delays + 1
    /\ idx' = idx + 1
    /\ retries' = MaxRetries
    /\ pc' = "attempt"
    /\ UNCHANGED << chapters_map, conf, run, missing_chapters, chapters_queue,
                    result_data, uncached_queue, scan_pos, cache_dir, book,
                    calls, reads, writes, save_failures, last, fetched_ok,
                    dir_at_start, prev >>
    /\ UNCHANGED << planVars, linkVars, cacheVars, extractVars >>

\* A loop that sleeps after its last entry too.
DownloadDoneWithDelay ==
    /\ pc = "fetched"
    /\ idx = Len(uncached_queue)
    /\ \E d \in DEFAULT_DELAY_MIN..DEFAULT_DELAY_MAX : sleep_for' = d
    /\ delays' = delays + 1
    /\ pc' = "sort"
    /\ UNCHANGED << chapters_map, conf, run, missing_chapters, chapters_queue,
                    result_data, uncached_queue, scan_pos, idx, retries,
                    cache_dir, book, calls, reads, writes,
                    save_failures, last, fetched_ok, dir_at_start, prev >>
    /\ UNCHANGED << planVars, linkVars, cacheVars, extractVars >>

\* line 670 after the last entry: the loop over uncached_queue ends
DownloadDone ==
    /\ pc = "fetched"
    /\ idx = Len(uncached_queue)
    /\ pc' = "sort"
    /\ UNCHANGED << chapters_map, conf, run, missing_chapters, chapters_queue,
                    result_data, uncached_queue, scan_pos, idx, retries,
                    sleep_for, cache_dir, book, calls, reads, writes, delays,
                    save_failures, last, fetched_ok, dir_at_start, prev >>
    /\ UNCHANGED << planVars, linkVars, cacheVars, extractVars >>

\* lines 679-686: the sort, and build_epub_file on a non-empty list
SortAndBuild ==
    /\ pc = "sort"
    /\ result_data' = SortResult(result_data)
    /\ book' = IF Len(result_data) > 0
               THEN [built |-> TRUE, chapters |-> SortResult(result_data)]
               ELSE book
    /\ pc' = "done"
    /\ UNCHANGED << chapters_map, conf, run, missing_chapters, chapters_queue,
                    uncached_queue, scan_pos, idx, retries, sleep_for,
                    cache_dir, calls, reads, writes, delays, save_failures,
                    last, fetched_ok, dir_at_start, prev >>
    /\ UNCHANGED << planVars, linkVars, cacheVars, extractVars >>

\* The program is started again with the same link file and the same
\* answers, over the cache directory the run before left.
Rerun ==
    /\ pc \in {"exit", "aborted", "done"}
    /\ run < MaxRuns
    /\ run' = run + 1
    /\ pc' = "validate"
    /\ missing_chapters' = <<>> /\ chapters_queue' = <<>>
    /\ result_data' = <<>> /\ uncached_queue' = <<>>
    /\ scan_pos' = 0 /\ idx' = 0 /\ retries' = 0 /\ sleep_for' = 0
    /\ book' = [built |-> FALSE, chapters |-> <<>>]
    /\ calls' = [n \in Chapters |-> 0]
    /\ reads' = 0 /\ writes' = 0 /\ delays' = 0 /\ save_failures' = 0
    /\ last' = NoAttempt
    /\ fetched_ok' = {}
    /\ dir_at_start' = cache_dir
    /\ prev' = [aborted |-> pc = "aborted", ok |-> fetched_ok]
    /\ UNCHANGED << chapters_map, conf, cache_dir >>
    /\ UNCHANGED << planVars, linkVars, cacheVars, extractVars >>

Next ==
    \/ Validate \/ ExitOnMissing \/ StartRun \/ CacheLookup
    \/ AttemptRaises \/ AttemptSaved \/ AttemptSaveFails
    \/ PolitenessDelay \/ DownloadDone \/ SortAndBuild \/ Rerun

Spec == Init /\ [][Next]_vars

\* ------------------------------------------------- planning specification

\* The validation loop of lines 585-600 as a function of the index, the
\* priority list and the range. main() hands it the list setup_config built,
\* which names every editor of the index (lines 527-529); Init and Spec
\* have those lists only. Here the loop is also applied to lists without
\* repeats that leave editors of the index out or name a handle the index
\* does not hold, the inputs for which the branch of lines 599-600 is taken
\* for a chapter that is in the index.
Priorities(index) ==
    { EditorPriority(AllEditors(index), choices) :
        choices \in Choices(AllEditors(index)) }
    \cup { q \in SeqsUpTo(Editors, Len(EditorOrder)) :
             \A i, j \in 1..Len(q) : i # j => q[i] # q[j] }

InitPlan ==
    /\ IdleOrch
    /\ cache_dir = [n \in Chapters |-> AbsentFile]
    /\ IdleLinks /\ IdleCache /\ IdleExtract
    /\ plan_index \in { m \in Indexes(IndexEditors, Urls) : DOMAIN m # {} }
    /\ \E s \in Chapters, e \in Chapters, prio \in Priorities(plan_index) :
          /\ s <= e
          /\ plan_conf = Config(s, e, prio, TRUE)
    /\ plan_pc = "input"
    /\ plan_out = [queue |-> <<>>, missing |-> <<>>]

\* lines 580-600 applied to the inputs
PlanStep ==
    /\ plan_pc = "input"
    /\ plan_out' = PlanChapters(plan_index, plan_conf)
    /\ plan_pc' = "planned"
    /\ UNCHANGED << orchVars, linkVars, cacheVars, extractVars,
                    plan_index, plan_conf >>

NextPlan == PlanStep

SpecPlan == InitPlan /\ [][NextPlan]_vars

\* ------------------------------------------------------------------ claims

InRange(n) == plan_conf.start_chapter <= n /\ n <= plan_conf.end_chapter

\* chapter n has an index entry that holds a prioritized source
Resolvable(n) ==
    /\ n \in DOMAIN plan_index
    /\ \E i \in 1..Len(plan_conf.editor_priority) :
          plan_conf.editor_priority[i] \in DOMAIN plan_index[n]

\* the URL of the earliest source of the priority list present for chapter n
PreferredUrl(n) ==
    LET q == plan_conf.editor_priority
        first == CHOOSE i \in 1..Len(q) :
                    /\ q[i] \in DOMAIN plan_index[n]
                    /\ \A j \in 1..(i - 1) : q[j] \notin DOMAIN plan_index[n]
    IN  plan_index[n][q[first]]

Planned == plan_pc = "planned"

\* C1: planning partitions the range [start, end]: every chapter with a
\* prioritized source in its map has exactly one plan entry, holding the URL
\* of the earliest such source in priority order; every other chapter of the
\* range, without index entry or without prioritized source in its map, is
\* in the missing list; nothing outside the range is in either; no chapter
\* is in both; plan entries are in increasing chapter order.
C1_PlanPartitionsRange ==
    Planned =>
        /\ \A n \in Chapters :
              InRange(n) /\ Resolvable(n) =>
                /\ Cardinality({ i \in 1..Len(plan_out.queue) :
                                    plan_out.queue[i][1] = n }) = 1
                /\ \A i \in 1..Len(plan_out.queue) :
                      plan_out.queue[i][1] = n =>
                        plan_out.queue[i][2] = PreferredUrl(n)
                /\ n \notin Range(plan_out.missing)
        /\ \A n \in Chapters :
              InRange(n) /\ ~Resolvable(n) =>
                /\ n \in Range(plan_out.missing)
                /\ \A i \in 1..Len(plan_out.queue) : plan_out.queue[i][1] # n
        /\ \A i \in 1..Len(plan_out.queue) : InRange(plan_out.queue[i][1])
        /\ \A i \in 1..Len(plan_out.missing) : InRange(plan_out.missing[i])
        /\ \A i, j \in 1..Len(plan_out.queue) :
              i < j => plan_out.queue[i][1] < plan_out.queue[j][1]
        /\ \A i, j \in 1..Len(plan_out.missing) :
              i < j => plan_out.missing[i] < plan_out.missing[j]

\* the index {1: {A: url1, B: url2}, 2: {B: url3}} with priority [C, A]
\* over [1, 2] has been planned: chapter 1 has the URL of A, the earliest
\* prioritized source present, and chapter 2, which is in the index without
\* a prioritized source, is missing
C1_Witness ==
    /\ Planned
    /\ plan_index = (1 :> ("@a" :> "url1" @@ "@b" :> "url2"))
                     @@ (2 :> ("@b" :> "url3"))
    /\ plan_conf.editor_priority = <<"@c", "@a">>
    /\ plan_conf.start_chapter = 1 /\ plan_conf.end_chapter = 2
    /\ plan_out.queue = << <<1, "url1">> >>
    /\ plan_out.missing = <<2>>

\* what a run has done outside planning
NoActivity ==
    /\ \A n \in Chapters : calls[n] = 0
    /\ reads = 0 /\ writes = 0
    /\ cache_dir = dir_at_start
    /\ result_data = <<>>
    /\ ~book.built

\* C2: a run whose planning left a chapter missing halts there: it stands at
\* the validation or at the exit, has called neither the extractor nor the
\* cache, has executed no plan entry and has assembled no document.
C2_MissingHaltsBeforeActivity ==
    Len(missing_chapters) > 0 =>
        /\ pc \in {"validated", "exit"}
        /\ NoActivity

\* the run has exited on missing = [2] although chapter 1 was resolvable
C2_Witness ==
    /\ pc = "exit"
    /\ conf.start_chapter = 1 /\ conf.end_chapter = 2
    /\ missing_chapters = <<2>>
    /\ Len(chapters_queue) = 1

\* the chapters of the plan before position scan_pos that were cache hits
QueueChapters == { chapters_queue[i][1] : i \in 1..Len(chapters_queue) }
Scanned == { chapters_queue[i][1] :
               i \in { k \in 1..Len(chapters_queue) : k < scan_pos } }
WasHit(n) == dir_at_start[n].kind = "json"
EntriesOf(seq, n) == { i \in 1..Len(seq) : seq[i].chapter_num = n }

\* entry e holds what file f recorded: title, markup and images
SameAsFile(e, f) ==
    /\ e.title = f.obj.title
    /\ e.html = f.obj.html
    /\ Len(e.images) = Len(f.obj.images)
    /\ \A k \in 1..Len(e.images) :
          /\ e.images[k][1] = f.obj.images[k].filename
          /\ B64Encode(e.images[k][2]) = f.obj.images[k].data_b64

\* C3, as claimed: for a cache-miss entry the extractor is called at most 3
\* times, the entry succeeds on the first attempt that returns, and after 3
\* failed attempts the run aborts without fetching a later entry and without
\* a document.
C3_FirstReturnSucceeds ==
    /\ \A n \in Chapters : calls[n] <= MaxRetries
    /\ last.kind \in {"saved", "save_failed"} => last.num \in fetched_ok
    /\ pc = "aborted" =>
          /\ calls[uncached_queue[idx][1]] = MaxRetries
          /\ \A i \in 1..Len(uncached_queue) :
                i > idx => calls[uncached_queue[i][1]] = 0
          /\ ~book.built

\* C4: a planned chapter whose cache lookup is a hit is never fetched during
\* the run, and once its lookup is done the result list holds one entry for
\* it, equal to the cached record, whatever the images-wanted flag and
\* whether or not the record has images.
C4_CacheHitUsedUnmodified ==
    \A n \in QueueChapters :
        WasHit(n) =>
            /\ calls[n] = 0
            /\ cache_dir[n] = dir_at_start[n]
            /\ n \in Scanned =>
                  /\ Cardinality(EntriesOf(result_data, n)) = 1
                  /\ \A i \in EntriesOf(result_data, n) :
                        /\ SameAsFile(result_data[i], dir_at_start[n])
                        /\ result_data[i].has_images
                             = dir_at_start[n].obj.has_images
            /\ book.built =>
                  \A i \in EntriesOf(book.chapters, n) :
                      SameAsFile(book.chapters[i], dir_at_start[n])

\* a finished run that wanted images took a record without images from the
\* cache, and fetched another chapter from the network
C4_Witness ==
    /\ pc = "done" /\ book.built
    /\ conf.include_images
    /\ \E n \in QueueChapters :
          /\ WasHit(n)
          /\ ~dir_at_start[n].obj.has_images
    /\ fetched_ok # {}

\* C5: the list handed to build_epub_file is in non-decreasing chapter order.
C5_BookSortedByChapter ==
    book.built =>
        /\ Len(book.chapters) > 0
        /\ \A i, j \in 1..Len(book.chapters) :
              i < j => book.chapters[i].chapter_num
                         <= book.chapters[j].chapter_num

\* a document was built from chapter 2 taken from the cache and chapter 1
\* fetched after it
C5_Witness ==
    /\ book.built
    /\ Len(chapters_queue) = 2
    /\ WasHit(2) /\ ~WasHit(1)
    /\ fetched_ok = {1}

\* the last entry of the result list for chapter n
LastEntry(n) ==
    result_data[CHOOSE i \in EntriesOf(result_data, n) :
                   \A j \in EntriesOf(result_data, n) : j <= i]

\* C6: when a run has aborted on a chapter that exhausted its attempts, every
\* chapter whose entry succeeded earlier in the run has a cache record with
\* its content, and every record the run found is unchanged; the run that
\* follows with the same plan takes those chapters from the cache and never
\* calls the extractor for them.
C6_AbortKeepsCache ==
    /\ pc = "aborted" =>
          /\ \A n \in fetched_ok :
                /\ cache_dir[n].kind = "json"
                /\ SameAsFile(LastEntry(n), cache_dir[n])
                /\ LoadCache(cache_dir, n).found
                /\ SameAsFile(LoadCache(cache_dir, n).data, cache_dir[n])
          /\ \A n \in Chapters :
                dir_at_start[n].kind = "json" => cache_dir[n] = dir_at_start[n]
    /\ prev.aborted =>
          \A n \in prev.ok :
              /\ calls[n] = 0
              /\ WasHit(n)
              /\ \A i \in 1..Len(uncached_queue) : uncached_queue[i][1] # n
              /\ n \in Scanned => Cardinality(EntriesOf(result_data, n)) = 1

\* the run after an abort that had fetched a chapter has finished its cache
\* lookups
C6_Witness ==
    /\ run > 1
    /\ prev.aborted /\ prev.ok # {}
    /\ scan_pos > Len(chapters_queue)
    /\ pc \in {"attempt", "aborted", "done"}

\* C10, as claimed: an attempt whose response has neither a usable state
\* payload nor a locatable content container fails: it is counted against
\* the attempts, and no record of it is returned or written to the cache.
C10_MissingStructureFails ==
    last.bare => last.kind = "raised"

\* --------------------------------------------------- cache specification

\* image bytes: the first k bytes of three patterns (all ones, all zeros,
\* mixed bits), for k up to MaxBytes
BytePattern(p, i) ==
    IF p = 1 THEN 255 ELSE IF p = 2 THEN 0 ELSE (i * 77 + 137) % 256
ByteStrings ==
    { [i \in 1..k |-> BytePattern(p, i)] : k \in 1..MaxBytes, p \in 1..3 }

FileA == ImgFilename(<<"src", 1, "jpg">>)
FileB == ImgFilename(<<"src", 2, "">>)

\* the chapter records put into the cache: without images, with one image
\* of every byte string, and with two images in either order
CacheInputs ==
    { [chapter_num |-> n, title |-> "", html |-> <<>>, images |-> <<>>] :
        n \in Chapters }
    \cup
    { [chapter_num |-> n, title |-> "T",
       html |-> << TextBlock("p", FALSE, <<"text">>), ImgBlock(FileA) >>,
       images |-> << <<FileA, b>> >>] : n \in Chapters, b \in ByteStrings }
    \cup
    { [chapter_num |-> n, title |-> "T",
       html |-> << ImgBlock(fs[1]), ImgBlock(fs[2]) >>,
       images |-> << <<fs[1], <<255>>>>, <<fs[2], <<0, 214>>>> >>] :
        n \in Chapters, fs \in { <<FileA, FileB>>, <<FileB, FileA>> } }

NeverPut == [put |-> FALSE, data |-> <<>>]

InitCache ==
    /\ IdleOrch
    /\ cache_dir = [n \in Chapters |-> AbsentFile]
    /\ stored = [n \in Chapters |-> NeverPut]
    /\ loaded = [num |-> 0, res |-> [found |-> FALSE], at |-> NeverPut]
    /\ IdleLinks /\ IdleExtract /\ IdlePlan

\* save_cache(chapter_data, CACHE_DIR)
CachePut ==
    /\ \E d \in CacheInputs :
          /\ cache_dir' = SaveCache(cache_dir, d)
          /\ stored' = [stored EXCEPT ![d.chapter_num] =
                           [put |-> TRUE, data |-> d]]
    /\ UNCHANGED << chapters_map, conf, pc, run, missing_chapters,
                    chapters_queue, result_data, uncached_queue, scan_pos,
                    idx, retries, sleep_for, book, calls, reads, writes,
                    delays, save_failures, last, fetched_ok, dir_at_start,
                    prev, loaded >>
    /\ UNCHANGED << planVars, linkVars, extractVars >>

\* load_cache(num, CACHE_DIR)
CacheGet ==
    /\ \E n \in Chapters :
          loaded' = [num |-> n, res |-> LoadCache(cache_dir, n),
                     at |-> stored[n]]
    /\ UNCHANGED << planVars, orchVars, linkVars, extractVars, stored >>

NextCache == CachePut \/ CacheGet

SpecCache == InitCache /\ [][NextCache]_vars

\* record r holds the title, the markup and the (file name, bytes) pairs of d
SameContent(r, d) ==
    /\ r.title = d.title
    /\ r.html = d.html
    /\ r.images = d.images

\* C7: after a put, a get for the same chapter number returns the title, the
\* block markup and the ordered (file name, bytes) pairs of the last record
\* put under that number, whatever was put under it before and whatever is
\* put under other numbers; a number never put has no record.
C7_CacheRoundTrip ==
    /\ \A n \in Chapters :
          IF stored[n].put
          THEN /\ LoadCache(cache_dir, n).found
               /\ SameContent(LoadCache(cache_dir, n).data, stored[n].data)
               /\ LoadCache(cache_dir, n).data.chapter_num = n
          ELSE ~LoadCache(cache_dir, n).found
    /\ loaded.num # 0 =>
          IF loaded.at.put
          THEN /\ loaded.res.found
               /\ SameContent(loaded.res.data, loaded.at.data)
          ELSE ~loaded.res.found

\* a get returned a two-byte image (one padded base64 group) stored under
\* chapter 1 while chapter 2 holds a record of two images
C7_Witness ==
    /\ loaded.num = 1 /\ loaded.res.found
    /\ Len(loaded.res.data.images) = 1
    /\ Len(loaded.res.data.images[1][2]) = 2
    /\ stored[2].put /\ Len(stored[2].data.images) = 2
    /\ stored[1] = loaded.at

\* --------------------------------------------- link index specification

LinkMatches == [num : Chapters, editor : IndexEditors, url : {"url1", "url2"}]

InitLinks ==
    /\ IdleOrch
    /\ cache_dir = [n \in Chapters |-> AbsentFile]
    /\ matches \in SeqsUpTo(LinkMatches, MaxMatches)
    /\ mpos = 1
    /\ chapters = <<>>
    /\ editors_set = {}
    /\ parsed = <<>>
    /\ IdleCache /\ IdleExtract /\ IdlePlan

\* parse_links_file, lines 117-126: the loop body for one match
LinkMatch ==
    /\ mpos <= Len(matches)
    /\ chapters' = AddLink(chapters, matches[mpos])
    /\ editors_set' = editors_set \cup {matches[mpos].editor}
    /\ mpos' = mpos + 1
    /\ UNCHANGED << planVars, orchVars, cacheVars, extractVars, matches, parsed >>

\* parse_links_file, line 128
LinkReturn ==
    /\ mpos = Len(matches) + 1
    /\ parsed = <<>>
    /\ parsed' = << chapters, SortedEditors(editors_set) >>
    /\ UNCHANGED << planVars, orchVars, cacheVars, extractVars, matches, mpos, chapters,
                    editors_set >>

NextLinks == LinkMatch \/ LinkReturn

SpecLinks == InitLinks /\ [][NextLinks]_vars

\* the matches of (chapter n, editor e) among the first k
Occurrences(n, e, k) ==
    { i \in 1..k : matches[i].num = n /\ matches[i].editor = e }

\* index holds exactly the pairs that occur among the first k matches, each
\* with the URL of its last occurrence
IndexOfPrefix(index, k) ==
    \A n \in Chapters, e \in Editors :
        IF Occurrences(n, e, k) = {}
        THEN ~(n \in DOMAIN index /\ e \in DOMAIN index[n])
        ELSE /\ n \in DOMAIN index /\ e \in DOMAIN index[n]
             /\ \E i \in Occurrences(n, e, k) :
                   /\ \A j \in Occurrences(n, e, k) : j <= i
                   /\ index[n][e] = matches[i].url

\* C8: the index built from a sequence of matches maps each (chapter, source)
\* pair that occurs to the URL of its last occurrence and holds no other
\* pair; this holds of the dictionary after every match and of the returned
\* index.
C8_LastMatchWins ==
    /\ mpos >= 1 => IndexOfPrefix(chapters, mpos - 1)
    /\ parsed # <<>> =>
          /\ IndexOfPrefix(parsed[1], Len(matches))
          /\ DOMAIN parsed[1] \subseteq Chapters

\* the index was returned for a text in which a (chapter, source) pair
\* occurs twice with different URLs
C8_Witness ==
    /\ parsed # <<>>
    /\ \E i, j \in 1..Len(matches) :
          /\ i < j
          /\ matches[i].num = matches[j].num
          /\ matches[i].editor = matches[j].editor
          /\ matches[i].url # matches[j].url

\* ------------------------------------------------ extractor specification

\* child nodes of a content root: a text node, paragraphs whose inner markup
\* is text, a comment only, or whitespace only, a centred heading with an
\* anchor, a data attribute and a run of spaces, a block of spaces around an
\* anchor and a comment, an inline element, and image elements of both
\* renderings
ElementPool ==
    { El(None, <<>>, "", "", NoSrc, NoSrc, NoSrc),
      El("p", <<"text">>, "", "", NoSrc, NoSrc, NoSrc),
      El("p", <<"comment">>, "", "", NoSrc, NoSrc, NoSrc),
      El("p", <<"spsp">>, "", "", NoSrc, NoSrc, NoSrc),
      El("h2", <<"anchor", "text", "spsp", "elemdata">>, "center", "center",
         NoSrc, NoSrc, NoSrc),
      El("div", <<"sp", "anchor", "comment", "sp">>, "", "left",
         NoSrc, NoSrc, NoSrc),
      El("span", <<"text">>, "", "", NoSrc, NoSrc, NoSrc),
      El("image", <<>>, "", "", <<"src", 1, "jpg">>, NoSrc, NoSrc),
      El("figure", <<>>, "", "", <<"src", 1, "jpg">>, <<"src", 2, "">>, NoSrc),
      El("figure", <<>>, "", "", NoSrc, NoSrc, <<"src", 2, "">>) }

ChildLists == SeqsUpTo(ElementPool, MaxChildren)

\* the payload part of a body: no marker; a marker without terminator; a
\* payload that does not parse, is no dictionary, has no articles, has an
\* article with the child nodes kids, or has an article without text
PayloadParts(kids) ==
    LET part(m, semi, script, st) ==
            [marker |-> m, end_semi |-> semi, end_script |-> script,
             state |-> st]
        article(title, text) ==
            [kind |-> "dict", items |-> << [title |-> title, text |-> text] >>]
    IN  { part(FALSE, FALSE, FALSE, [kind |-> "invalid"]),
          part(TRUE, FALSE, FALSE, [kind |-> "invalid"]),
          part(TRUE, TRUE, FALSE, [kind |-> "invalid"]),
          part(TRUE, FALSE, TRUE, [kind |-> "invalid"]),
          part(TRUE, TRUE, TRUE, [kind |-> "nondict"]),
          part(TRUE, TRUE, FALSE, [kind |-> "dict", items |-> <<>>]),
          part(TRUE, TRUE, TRUE, article("T", MarkupText(kids))),
          part(TRUE, FALSE, TRUE, article("", EmptyText)) }

\* the rendered part of a body: the title heading and the content container
DomParts ==
    { [dom_title |-> "T", container |-> "article"],
      [dom_title |-> "", container |-> "div"],
      [dom_title |-> "T", container |-> "none"] }

\* response bodies: the article of the payload and the content container
\* hold the same child nodes
Bodies ==
    UNION { { [ marker |-> pp.marker, end_semi |-> pp.end_semi,
                end_script |-> pp.end_script, state |-> pp.state,
                dom_title |-> dp.dom_title, container |-> dp.container,
                children |-> kids ] :
              pp \in PayloadParts(kids), dp \in DomParts } :
            kids \in ChildLists }

ImgBytes == {DownloadFailed, DownloadOk(PngBytes)}

\* what download_image returns for each child of the root
Downloads(children) == [1..Len(children) -> ImgBytes]

NothingExtracted == [via |-> "none", res |-> Raised]

InitExtract ==
    /\ IdleOrch
    /\ cache_dir = [n \in Chapters |-> AbsentFile]
    /\ body \in Bodies
    /\ want_images \in BOOLEAN
    /\ xpc = "request"
    /\ extracted = NothingExtracted
    /\ IdleLinks /\ IdleCache /\ IdlePlan

\* lines 136-137: requests.get or raise_for_status raises
RequestFails ==
    /\ xpc = "request"
    /\ xpc' = "request_failed"
    /\ UNCHANGED << planVars, orchVars, linkVars, cacheVars, body, want_images,
                    extracted >>

\* lines 144-178: the payload is located and parsed, and the strategy chosen
Probe ==
    /\ xpc = "request"
    /\ xpc' = Strategy(body)
    /\ UNCHANGED << planVars, orchVars, linkVars, cacheVars, body, want_images,
                    extracted >>

\* lines 181-249
ExtractState ==
    /\ xpc = "state"
    /\ \E dl \in Downloads(body.state.items[1].text.nodes) :
          extracted' = [via |-> "state",
                        res |-> FetchChapterState(body, want_images, dl)]
    /\ xpc' = "returned"
    /\ UNCHANGED << planVars, orchVars, linkVars, cacheVars, body, want_images >>

\* lines 252-318
ExtractFallback ==
    /\ xpc = "fallback"
    /\ \E dl \in Downloads(body.children) :
          extracted' = [via |-> "fallback",
                        res |-> FetchChapterFallback(body, want_images, dl)]
    /\ xpc' = "returned"
    /\ UNCHANGED << planVars, orchVars, linkVars, cacheVars, body, want_images >>

NextExtract == RequestFails \/ Probe \/ ExtractState \/ ExtractFallback

SpecExtract == InitExtract /\ [][NextExtract]_vars

\* the state payload is absent, truncated, or does not parse
PayloadUnusable(b) ==
    \/ ~b.marker
    \/ b.marker /\ ~b.end_semi /\ ~b.end_script
    \/ b.marker /\ (b.end_semi \/ b.end_script) /\ b.state.kind = "invalid"

ContainerFound(b) == b.container \in {"article", "div"}

\* a block made from an element's inner markup: no placeholder, no image
IsContentBlock(blk) ==
    /\ blk.img = <<>>
    /\ Len(blk.inner) > 0
    /\ \A i \in 1..Len(blk.inner) : blk.inner[i] \in MarkupPieces

\* the response went through the rendered-DOM strategy, or is on its way
ViaFallback ==
    /\ xpc \in {"request", "request_failed", "fallback", "returned"}
    /\ xpc = "returned" => extracted.via = "fallback"

\* C9, as claimed: when the payload is unusable the extraction goes through
\* the rendered-DOM strategy, and the block list is non-empty whenever the
\* container holds a whitelisted block element with non-empty inner markup.
C9_FallbackYieldsBlocks ==
    PayloadUnusable(body) =>
        /\ ViaFallback
        /\ (/\ xpc = "returned"
            /\ ContainerFound(body)
            /\ \E i \in 1..Len(body.children) :
                  /\ body.children[i].tag \in WhitelistTags
                  /\ Len(body.children[i].inner) > 0)
           => Len(extracted.res.html) > 0

\* inner markup that holds more than whitespace, empty anchors and comments
HasContent(inner) ==
    \E i \in 1..Len(inner) : inner[i] \in {"text", "elem", "elemdata"}

\* C9, amended: when the payload is unusable the extraction goes through the
\* rendered-DOM strategy, and every whitelisted block element of the
\* container whose inner markup holds more than whitespace, empty anchors
\* and comments yields a block of its tag holding its cleaned markup, so the
\* block list is non-empty.
C9_FallbackYieldsCleanBlocks ==
    PayloadUnusable(body) =>
        /\ ViaFallback
        /\ xpc = "returned" /\ ContainerFound(body) =>
              \A i \in 1..Len(body.children) :
                  (/\ body.children[i].tag \in WhitelistTags
                   /\ HasContent(body.children[i].inner))
                  => \E k \in 1..Len(extracted.res.html) :
                        /\ IsContentBlock(extracted.res.html[k])
                        /\ extracted.res.html[k].tag = body.children[i].tag
                        /\ \A j \in 1..Len(extracted.res.html[k].inner) :
                              extracted.res.html[k].inner[j]
                                \in {"text", "elem", "sp"}

\* a body whose payload does not parse and whose <div> container holds a
\* heading has been extracted by the rendered-DOM strategy
C9_Witness ==
    /\ xpc = "returned"
    /\ body.marker /\ body.state.kind = "invalid"
    /\ body.container = "div"
    /\ \E i \in 1..Len(body.children) : body.children[i].tag = "h2"
    /\ \E k \in 1..Len(extracted.res.html) :
          /\ extracted.res.html[k].tag = "h2"
          /\ extracted.res.html[k].inner = <<"text", "sp", "elem">>

\* ---- C11

\* the entry the last attempt appended to result_data
LastAppended == result_data[Len(result_data)]

\* the last attempt's extraction returned and its entry is still the last
\* one of the list
LastReturned ==
    /\ last.kind \in {"saved", "save_failed"}
    /\ pc \in {"attempt", "fetched", "aborted"}

\* node i of the nodes the last extraction looped over is an image-bearing
\* element with an image URL
ImageBearing(i) ==
    LET c == last.nodes[i] IN
    IF last.via = "state"
    THEN c.tag = "image" /\ c.src # NoSrc
    ELSE c.tag = "figure" /\
         (c.src # NoSrc \/ c.ns_src # NoSrc \/ c.data_src # NoSrc)

DownloadFailedAt(i) == ImageBearing(i) /\ ~last.dl[i].ok
DownloadedAt(i) ==
    ImageBearing(i) /\ last.dl[i].ok /\ Len(last.dl[i].content) > 0

ImageBlocks(e) == { k \in 1..Len(e.html) : e.html[k].img # <<>> }
ElementBlocks(e) == { k \in 1..Len(e.html) : IsContentBlock(e.html[k]) }

\* the last attempt asked for images and the download of one failed
ImageFailed ==
    /\ conf.include_images
    /\ \E i \in 1..Len(last.nodes) : DownloadFailedAt(i)

\* C11: an image download that fails never fails the chapter or the run.
\* An attempt with a failed download does not end in an exception of the
\* extractor; the chapter it returns holds one image block and one image
\* entry for each image-bearing element whose download gave bytes and none
\* for one whose download failed, every image entry holds downloaded bytes,
\* and every whitelisted block element with markup left after cleaning has
\* its block; the run aborts only with the retries of an entry used up by
\* attempts that raised or whose cache write raised.
C11_ImageFailureNeverFails ==
    /\ ImageFailed => last.kind # "raised"
    /\ LastReturned =>
          /\ Cardinality(ImageBlocks(LastAppended)) =
                Cardinality({ i \in 1..Len(last.nodes) :
                                conf.include_images /\ DownloadedAt(i) })
          /\ Len(LastAppended.images) = Cardinality(ImageBlocks(LastAppended))
          /\ \A k \in 1..Len(LastAppended.images) :
                \E i \in 1..Len(last.nodes) :
                   /\ DownloadedAt(i)
                   /\ LastAppended.images[k][2] = last.dl[i].content
          /\ Cardinality(ElementBlocks(LastAppended)) =
                Cardinality({ i \in 1..Len(last.nodes) :
                                /\ last.nodes[i].tag \in WhitelistTags
                                /\ Len(CleanHtml(last.nodes[i].inner)) > 0 })
    /\ pc = "aborted" =>
          /\ retries = 0
          /\ last.kind \in {"raised", "save_failed"}
          /\ calls[last.num] = MaxRetries
          /\ last.kind = "raised" => ~ImageFailed

\* a run that asked for images finished its book after an attempt whose
\* figure failed to download and whose paragraph was kept: the entry was
\* saved on the first call and holds the paragraph and no image
C11_Witness ==
    /\ pc = "done" /\ book.built
    /\ last.kind = "saved" /\ ImageFailed
    /\ last.via = "fallback"
    /\ calls[last.num] = 1
    /\ \E k \in 1..Len(book.chapters) :
          /\ book.chapters[k].chapter_num = last.num
          /\ Len(book.chapters[k].html) = 1
          /\ book.chapters[k].images = <<>>

\* ---- C12

\* the entries fetched from the network so far in this run
FetchedSoFar ==
    IF pc \in {"sort", "done"} THEN Len(uncached_queue)
    ELSE IF pc = "fetched" THEN idx
    ELSE IF pc \in {"attempt", "aborted"} THEN idx - 1
    ELSE 0

\* one delay between each two fetched entries: m - 1 for m >= 1, none for 0
DelayCount ==
    delays = IF FetchedSoFar = 0 THEN 0
             ELSE IF pc \in {"sort", "done", "fetched"} THEN FetchedSoFar - 1
             ELSE FetchedSoFar

\* a step that delays follows the successful fetch of the entry at idx,
\* which is not the last one, draws from [min, max] and moves to the next
DelayStep ==
    delays' > delays =>
        /\ pc = "fetched"
        /\ last.kind = "saved"
        /\ last.num = uncached_queue[idx][1]
        /\ idx < Len(uncached_queue)
        /\ delays' = delays + 1
        /\ sleep_for' \in DEFAULT_DELAY_MIN..DEFAULT_DELAY_MAX
        /\ idx' = idx + 1 /\ pc' = "attempt"

\* a successful fetch that is not the last entry is followed by a delay
\* and by nothing else, and no other step sleeps for politeness
DelayFollows ==
    (pc = "fetched" /\ idx < Len(uncached_queue)) => delays' = delays + 1

\* C12: a politeness delay happens only right after a successful network
\* fetch that another cache-miss entry follows, and always then; it is
\* drawn from [DEFAULT_DELAY_MIN, DEFAULT_DELAY_MAX]; a run that fetched m
\* entries and did not abort has slept m - 1 times (0 when m = 0).
C12_DelayBetweenFetches ==
    /\ []DelayCount
    /\ [][DelayStep /\ DelayFollows]_vars

\* a run fetched two chapters and finished after one delay
C12_Witness ==
    /\ pc = "done"
    /\ Len(uncached_queue) = 2
    /\ delays = 1
    /\ sleep_for = 0

\* ---- C13

\* C13, as claimed: the list handed to build_epub_file holds exactly one
\* entry for each chapter number of the fetch plan and nothing else, also
\* when a cache write failed after a successful extraction and the attempt
\* was retried.
C13_OneEntryPerChapter ==
    (pc = "done" /\ book.built) =>
        /\ \A n \in QueueChapters :
              Cardinality(EntriesOf(book.chapters, n)) = 1
        /\ Len(book.chapters) = Len(chapters_queue)

====
